---- MODULE Spec2Model ----
(***************************************************************************)
(* Model of generate_json.py, the catalog builder of Linux-Rootfs: one     *)
(* pass over <os-type>/<version>/<arch>/ below the working directory that  *)
(* collects every "*-rootfs.tar.gz" archive with its ".md5" sidecar into   *)
(* rootfs_metadata and dumps it to rootfs_metadata.json.                   *)
(*                                                                         *)
(* A Python str is a sequence of one-character strings, so that comparing, *)
(* slicing, splitting and case mapping are computed, not assumed.          *)
(***************************************************************************)
EXTENDS Integers, Sequences, FiniteSets, TLC

VARIABLES
    disk,             \* the directory tree below BASE_DIR (never written by the run)
    pc,               \* position of the script
    rootfs_metadata,  \* line 40
    os_types,         \* rest of the iteration of line 43
    os_type,
    os_data,
    versions,         \* rest of the iteration of line 52
    version,
    version_data,
    has_valid_arch,
    archs,            \* rest of the iteration of line 68
    arch,
    arch_data,
    files,            \* rest of the iteration of line 77
    listed,           \* what os.listdir(arch_path) returned, per architecture path
    stdout,           \* what print() has written
    json_file,        \* contents of rootfs_metadata.json
    runs,             \* number of runs of the script started so far
    prev_json         \* rootfs_metadata.json as the previous run left it

vars == <<disk, pc, rootfs_metadata, os_types, os_type, os_data, versions, version,
          version_data, has_valid_arch, archs, arch, arch_data, files, listed,
          stdout, json_file, runs, prev_json>>

(***************************************************************************)
(* Characters and strings                                                  *)
(***************************************************************************)
\* the characters of code points 32..95 and 97..126, in code point order (the
\* grave accent, 96, occurs in no name or file of the model)
PrintableLow ==
    <<" ","!","\"","#","$","%","&","'","(",")","*","+",",","-",".","/",
      "0","1","2","3","4","5","6","7","8","9",":",";","<","=",">","?","@",
      "A","B","C","D","E","F","G","H","I","J","K","L","M","N","O","P","Q",
      "R","S","T","U","V","W","X","Y","Z","[","\\","]","^","_">>

PrintableHigh ==
    <<"a","b","c","d","e","f","g","h","i","j","k","l","m","n","o","p","q",
      "r","s","t","u","v","w","x","y","z","{","|","}","~">>

Char ==
    {PrintableLow[i] : i \in DOMAIN PrintableLow}
        \cup {PrintableHigh[i] : i \in DOMAIN PrintableHigh}
        \cup {"\t", "\n", "\r"}

\* ord(c): the code point Python compares characters by
Ord ==
    [c \in Char |->
        IF c = "\t" THEN 9
        ELSE IF c = "\n" THEN 10
        ELSE IF c = "\r" THEN 13
        ELSE IF \E i \in DOMAIN PrintableLow : PrintableLow[i] = c
             THEN 31 + (CHOOSE i \in DOMAIN PrintableLow : PrintableLow[i] = c)
             ELSE 96 + (CHOOSE i \in DOMAIN PrintableHigh : PrintableHigh[i] = c)]

\* chr(n) for a letter's code point
Chr(n) == IF n <= 95 THEN PrintableLow[n - 31] ELSE PrintableHigh[n - 96]

IsUpper(c) == Ord[c] >= 65 /\ Ord[c] <= 90

IsLower(c) == Ord[c] >= 97 /\ Ord[c] <= 122

IsCased(c) == IsUpper(c) \/ IsLower(c)

ToUpper(c) == IF IsLower(c) THEN Chr(Ord[c] - 32) ELSE c

ToLower(c) == IF IsUpper(c) THEN Chr(Ord[c] + 32) ELSE c

\* str.isspace() on the characters of the model
IsSpace(c) == c \in {" ", "\t", "\n", "\r"}

\* str.capitalize(): first character upper-cased, the rest lower-cased
capitalize(s) ==
    [i \in DOMAIN s |-> IF i = 1 THEN ToUpper(s[i]) ELSE ToLower(s[i])]

\* str.title(): a cased character is upper-cased after an uncased one (or at
\* the start) and lower-cased after a cased one
title(s) ==
    [i \in DOMAIN s |->
        IF i > 1 /\ IsCased(s[i - 1]) THEN ToLower(s[i]) ELSE ToUpper(s[i])]

\* str.endswith(suffix)
endswith(s, suffix) ==
    /\ Len(s) >= Len(suffix)
    /\ SubSeq(s, Len(s) - Len(suffix) + 1, Len(s)) = suffix

\* a < b on str: lexicographic by code point, a proper prefix is smaller
RECURSIVE str_lt(_, _)
str_lt(a, b) ==
    IF b = <<>> THEN FALSE
    ELSE IF a = <<>> THEN TRUE
    ELSE IF Head(a) = Head(b) THEN str_lt(Tail(a), Tail(b))
    ELSE Ord[Head(a)] < Ord[Head(b)]

RECURSIVE InsertSorted(_, _)
InsertSorted(x, s) ==
    IF s = <<>> THEN <<x>>
    ELSE IF str_lt(x, Head(s)) THEN <<x>> \o s
    ELSE <<Head(s)>> \o InsertSorted(x, Tail(s))

\* sorted(l) on a list of str
RECURSIVE sorted(_)
sorted(l) == IF l = <<>> THEN <<>> ELSE InsertSorted(Head(l), sorted(Tail(l)))

Reversed(s) == [i \in DOMAIN s |-> s[Len(s) + 1 - i]]

\* sorted(l) where reverse=True was meant
sorted_reverse_ascending(l) == sorted(l)

\* sorted(l, reverse=True); the names of one directory are distinct, so the
\* stable descending sort is the ascending one reversed
sorted_reverse(l) == Reversed(sorted(l))

RECURSIVE lstrip(_)
lstrip(s) == IF s # <<>> /\ IsSpace(Head(s)) THEN lstrip(Tail(s)) ELSE s

RECURSIVE rstrip(_)
rstrip(s) ==
    IF s # <<>> /\ IsSpace(s[Len(s)]) THEN rstrip(SubSeq(s, 1, Len(s) - 1)) ELSE s

\* str.strip()
strip(s) == rstrip(lstrip(s))

\* str.split(): the maximal runs of non-whitespace characters, in order
RECURSIVE SplitFrom(_, _)
SplitFrom(s, word) ==
    IF s = <<>> THEN (IF word = <<>> THEN <<>> ELSE <<word>>)
    ELSE IF IsSpace(Head(s))
         THEN (IF word = <<>> THEN <<>> ELSE <<word>>) \o SplitFrom(Tail(s), <<>>)
         ELSE SplitFrom(Tail(s), Append(word, Head(s)))

split(s) == SplitFrom(s, <<>>)

(***************************************************************************)
(* Program constants                                                       *)
(***************************************************************************)
BASE_DIR == <<>>   \* os.getcwd(): a path is the sequence of names below it

BASE_URL ==
    <<"h","t","t","p","s",":","/","/","r","a","w",".","g","i","t","h","u","b",
      "u","s","e","r","c","o","n","t","e","n","t",".","c","o","m","/",
      "x","t","i","a","n","x","i","a","n","/","L","i","n","u","x","-",
      "R","o","o","t","f","s","/","r","e","f","s","/","h","e","a","d","s","/",
      "m","a","i","n">>

Alpine == <<"a","l","p","i","n","e">>

Ubuntu == <<"u","b","u","n","t","u">>

OS_TYPES == <<Alpine, Ubuntu>>

VALID_ABIS ==
    << <<"a","r","m","6","4">>, <<"a","r","m","h","f">>, <<"a","m","d","6","4">>,
       <<"i","3","8","6">>, <<"x","8","6">>, <<"x","8","6","_","6","4">>,
       <<"a","a","r","c","h","6","4">> >>

UBUNTU_VERSION_MAP ==
    << [key |-> <<"1","4",".","0","4">>, value |-> <<"T","r","u","s","t","y"," ","T","a","h","r">>],
       [key |-> <<"1","6",".","0","4">>, value |-> <<"X","e","n","i","a","l"," ","X","e","r","u","s">>],
       [key |-> <<"1","8",".","0","4">>, value |-> <<"B","i","o","n","i","c"," ","B","e","a","v","e","r">>],
       [key |-> <<"2","0",".","0","4">>, value |-> <<"F","o","c","a","l"," ","F","o","s","s","a">>],
       [key |-> <<"2","2",".","0","4">>, value |-> <<"J","a","m","m","y"," ","J","e","l","l","y","f","i","s","h">>],
       [key |-> <<"2","4",".","0","4">>, value |-> <<"N","o","b","l","e"," ","N","u","m","b","a","t">>] >>

ARCHIVE_SUFFIX == <<"-","r","o","o","t","f","s",".","t","a","r",".","g","z">>

MD5_EXT == <<".","m","d","5">>

(***************************************************************************)
(* dict: an insertion-ordered sequence of [key, value] items               *)
(***************************************************************************)
DictKeys(d) == [i \in DOMAIN d |-> d[i].key]

DictHas(d, k) == \E i \in DOMAIN d : d[i].key = k

DictGet(d, k) == d[CHOOSE i \in DOMAIN d : d[i].key = k].value

\* dict.get(k, default)
DictGetDefault(d, k, default) == IF DictHas(d, k) THEN DictGet(d, k) ELSE default

\* d.setdefault(k, v): a present key keeps its value
DictSet_KeepFirst(d, k, v) ==
    IF \E i \in DOMAIN d : d[i].key = k THEN d ELSE Append(d, [key |-> k, value |-> v])

\* d[k] = v: a present key keeps its position, a new key goes last
DictSet(d, k, v) ==
    IF DictHas(d, k)
    THEN [i \in DOMAIN d |-> IF d[i].key = k THEN [key |-> k, value |-> v] ELSE d[i]]
    ELSE Append(d, [key |-> k, value |-> v])

SeqHas(s, x) == \E i \in DOMAIN s : s[i] = x

(***************************************************************************)
(* The file system: a node is a regular file, a directory or a symbolic    *)
(* link to nothing; disk is the working directory's node                   *)
(***************************************************************************)
NoEntries == <<>>

File(size, readable, content) ==
    [kind |-> "file", size |-> size, readable |-> readable,
     content |-> content, entries |-> NoEntries]

Dir(entries) ==
    [kind |-> "dir", size |-> 4096, readable |-> TRUE,
     content |-> <<>>, entries |-> entries]

Dangling ==
    [kind |-> "dangling", size |-> 0, readable |-> FALSE,
     content |-> <<>>, entries |-> NoEntries]

Missing ==
    [kind |-> "missing", size |-> 0, readable |-> FALSE,
     content |-> <<>>, entries |-> NoEntries]

RECURSIVE NodeUnder(_, _)
NodeUnder(node, path) ==
    IF path = <<>> THEN node
    ELSE IF node.kind = "dir" /\ Head(path) \in DOMAIN node.entries
         THEN NodeUnder(node.entries[Head(path)], Tail(path))
         ELSE Missing

NodeAt(path) == NodeUnder(disk, path)

\* os.path.join(path, name)
os_path_join(path, name) == Append(path, name)

\* os.path.exists follows links: a link to nothing does not exist
os_path_exists(path) == NodeAt(path).kind \in {"file", "dir"}

os_path_isdir(path) == NodeAt(path).kind = "dir"

RECURSIVE Perms(_)
Perms(S) ==
    IF S = {} THEN {<<>>}
    ELSE UNION {{<<x>> \o p : p \in Perms(S \ {x})} : x \in S}

\* os.listdir(path) raises (NotADirectoryError, FileNotFoundError) unless path
\* is a directory
ListdirRaises(path) == NodeAt(path).kind # "dir"

\* os.listdir(path): the names of the directory, in arbitrary order
os_listdir(path) == Perms(DOMAIN NodeAt(path).entries)

\* os.path.getsize(path) raises OSError when nothing is there
GetsizeRaises(file_path) == NodeAt(file_path).kind \notin {"file", "dir"}

get_file_size(file_path) == NodeAt(file_path).size

get_relative_url(ver, arc, file_name, os_t) ==
    BASE_URL \o <<"/">> \o os_t \o <<"/">> \o ver \o <<"/">> \o arc \o <<"/">> \o file_name

\* the exception, if any, that lines 32-33 raise on this sidecar
Md5Exception(md5_file_path) ==
    LET node == NodeAt(md5_file_path) IN
    IF node.kind \in {"missing", "dangling"} THEN "FileNotFoundError"
    ELSE IF node.kind = "dir" THEN "IsADirectoryError"
    ELSE IF ~node.readable THEN "PermissionError"
    ELSE IF split(strip(node.content)) = <<>> THEN "IndexError"
    ELSE "none"

\* get_md5_checksum taking split()[-1], the sidecar's last token
get_md5_checksum_last_token(md5_file_path) ==
    LET exc == Md5Exception(md5_file_path)
        tokens == split(strip(NodeAt(md5_file_path).content))
    IN  IF exc = "none"
        THEN [is_none |-> FALSE, value |-> tokens[Len(tokens)], printed |-> <<>>]
        ELSE [is_none |-> TRUE,
              value |-> <<>>,
              printed |-> <<[text |-> "Error reading MD5 file",
                             path |-> md5_file_path, exc |-> exc]>>]

\* get_md5_checksum whose except clause returns None without printing
get_md5_checksum_silent(md5_file_path) ==
    LET exc == Md5Exception(md5_file_path) IN
    IF exc = "none"
    THEN [is_none |-> FALSE,
          value |-> split(strip(NodeAt(md5_file_path).content))[1],
          printed |-> <<>>]
    ELSE [is_none |-> TRUE, value |-> <<>>, printed |-> <<>>]

\* get_md5_checksum: the checksum, or None with the message it prints
get_md5_checksum(md5_file_path) ==
    LET exc == Md5Exception(md5_file_path) IN
    IF exc = "none"
    THEN [is_none |-> FALSE,
          value |-> split(strip(NodeAt(md5_file_path).content))[1],
          printed |-> <<>>]
    ELSE [is_none |-> TRUE,
          value |-> <<>>,
          printed |-> <<[text |-> "Error reading MD5 file",
                         path |-> md5_file_path, exc |-> exc]>>]

(***************************************************************************)
(* json.dump(rootfs_metadata, json_file, indent=4)                         *)
(***************************************************************************)
Digits == <<"0","1","2","3","4","5","6","7","8","9">>

RECURSIVE JsonInt(_)
JsonInt(n) ==
    IF n < 10 THEN <<Digits[n + 1]>>
    ELSE JsonInt(n \div 10) \o <<Digits[(n % 10) + 1]>>

\* the concatenation of the sequences of `parts`, halving so that the
\* evaluation nests only logarithmically deep
RECURSIVE Concat(_)
Concat(parts) ==
    IF parts = <<>> THEN <<>>
    ELSE IF Len(parts) = 1 THEN parts[1]
    ELSE Concat(SubSeq(parts, 1, Len(parts) \div 2))
         \o Concat(SubSeq(parts, Len(parts) \div 2 + 1, Len(parts)))

JsonEscapeChar(c) ==
    CASE c = "\"" -> <<"\\", "\"">>
      [] c = "\\" -> <<"\\", "\\">>
      [] c = "\n" -> <<"\\", "n">>
      [] c = "\r" -> <<"\\", "r">>
      [] c = "\t" -> <<"\\", "t">>
      [] OTHER -> <<c>>

JsonEscape(s) == Concat([i \in DOMAIN s |-> JsonEscapeChar(s[i])])

JsonStr(s) == <<"\"">> \o JsonEscape(s) \o <<"\"">>

Spaces(n) == [i \in 1..n |-> " "]

NewLine(depth) == <<"\n">> \o Spaces(4 * depth)

\* each item on a line of its own, a comma after all but the last
JoinItems(texts, depth) ==
    Concat([i \in DOMAIN texts |->
               NewLine(depth) \o texts[i]
                   \o (IF i < Len(texts) THEN <<",">> ELSE <<>>)])

\* a dict whose items are rendered already, written at nesting depth `depth`
JsonObject(items, depth) ==
    IF items = <<>> THEN <<"{", "}">>
    ELSE <<"{">>
         \o JoinItems([i \in DOMAIN items |->
                          JsonStr(items[i].key) \o <<":", " ">> \o items[i].value],
                      depth + 1)
         \o NewLine(depth) \o <<"}">>

JsonArray(texts, depth) ==
    IF texts = <<>> THEN <<"[", "]">>
    ELSE <<"[">> \o JoinItems(texts, depth + 1) \o NewLine(depth) \o <<"]">>

K_file_name == <<"f","i","l","e","_","n","a","m","e">>

K_download_size == <<"d","o","w","n","l","o","a","d","_","s","i","z","e">>

K_download_url == <<"d","o","w","n","l","o","a","d","_","u","r","l">>

K_md5_checksum == <<"m","d","5","_","c","h","e","c","k","s","u","m">>

K_codename == <<"c","o","d","e","n","a","m","e">>

K_architectures == <<"a","r","c","h","i","t","e","c","t","u","r","e","s">>

K_name == <<"n","a","m","e">>

K_versions == <<"v","e","r","s","i","o","n","s">>

K_distributions == <<"d","i","s","t","r","i","b","u","t","i","o","n","s">>

DumpArchData(a, depth) ==
    JsonObject(<<[key |-> K_file_name, value |-> JsonStr(a.file_name)],
                 [key |-> K_download_size, value |-> JsonInt(a.download_size)],
                 [key |-> K_download_url, value |-> JsonStr(a.download_url)],
                 [key |-> K_md5_checksum, value |-> JsonStr(a.md5_checksum)]>>,
               depth)

DumpArchitectures(d, depth) ==
    JsonObject([i \in DOMAIN d |->
                   [key |-> d[i].key, value |-> DumpArchData(d[i].value, depth + 1)]],
               depth)

DumpVersionData(v, depth) ==
    JsonObject(<<[key |-> K_codename, value |-> JsonStr(v.codename)],
                 [key |-> K_architectures,
                  value |-> DumpArchitectures(v.architectures, depth + 1)]>>,
               depth)

DumpVersions(d, depth) ==
    JsonObject([i \in DOMAIN d |->
                   [key |-> d[i].key, value |-> DumpVersionData(d[i].value, depth + 1)]],
               depth)

DumpOsData(o, depth) ==
    JsonObject(<<[key |-> K_name, value |-> JsonStr(o.name)],
                 [key |-> K_versions, value |-> DumpVersions(o.versions, depth + 1)]>>,
               depth)

json_dump(metadata) ==
    JsonObject(<<[key |-> K_distributions,
                  value |-> JsonArray([i \in DOMAIN metadata.distributions |->
                                          DumpOsData(metadata.distributions[i], 2)],
                                      1)]>>,
               0)

(***************************************************************************)
(* The script                                                              *)
(***************************************************************************)
EmptyDict == <<>>

NoStr == <<>>   \* a name not yet bound

os_type_path == os_path_join(BASE_DIR, os_type)

version_path == os_path_join(os_type_path, version)

arch_path == os_path_join(version_path, arch)

\* lines 58-61 with capitalize() in place of title()
Codename_Capitalized(os_t, ver) ==
    IF os_t = Ubuntu
    THEN capitalize(DictGetDefault(UBUNTU_VERSION_MAP, ver, <<>>))
    ELSE capitalize(os_t) \o <<"-">> \o ver

\* lines 58-61
Codename(os_t, ver) ==
    IF os_t = Ubuntu
    THEN title(DictGetDefault(UBUNTU_VERSION_MAP, ver, <<>>))
    ELSE capitalize(os_t) \o <<"-">> \o ver

\* state of a freshly started interpreter, lines 1-40
Start ==
    /\ pc = "os_loop"
    /\ rootfs_metadata = [distributions |-> <<>>]
    /\ os_types = OS_TYPES
    /\ os_type = NoStr
    /\ os_data = EmptyDict
    /\ versions = <<>>
    /\ version = NoStr
    /\ version_data = EmptyDict
    /\ has_valid_arch = FALSE
    /\ archs = <<>>
    /\ arch = NoStr
    /\ arch_data = EmptyDict
    /\ files = <<>>
    /\ listed = <<>>
    /\ stdout = <<>>

\* line 43-45: the next OS type has no path below BASE_DIR
OsTypeAbsent ==
    /\ pc = "os_loop"
    /\ os_types # <<>>
    /\ ~os_path_exists(os_path_join(BASE_DIR, Head(os_types)))
    /\ os_type' = Head(os_types)
    /\ os_types' = Tail(os_types)
    /\ UNCHANGED <<disk, pc, rootfs_metadata, os_data, versions, version, version_data,
                   has_valid_arch, archs, arch, arch_data, files, listed, stdout,
                   json_file, runs, prev_json>>

\* lines 43-52: the path exists and is listed
OsTypeListed ==
    /\ pc = "os_loop"
    /\ os_types # <<>>
    /\ os_path_exists(os_path_join(BASE_DIR, Head(os_types)))
    /\ ~ListdirRaises(os_path_join(BASE_DIR, Head(os_types)))
    /\ os_type' = Head(os_types)
    /\ os_types' = Tail(os_types)
    /\ os_data' = [name |-> capitalize(Head(os_types)), versions |-> EmptyDict]
    /\ \E l \in os_listdir(os_path_join(BASE_DIR, Head(os_types))) :
           versions' = sorted_reverse(l)
    /\ pc' = "version_loop"
    /\ UNCHANGED <<disk, rootfs_metadata, version, version_data, has_valid_arch,
                   archs, arch, arch_data, files, listed, stdout, json_file, runs,
                   prev_json>>

\* lines 43-52: the path exists but os.listdir raises, which nothing catches
OsTypeListdirRaises ==
    /\ pc = "os_loop"
    /\ os_types # <<>>
    /\ os_path_exists(os_path_join(BASE_DIR, Head(os_types)))
    /\ ListdirRaises(os_path_join(BASE_DIR, Head(os_types)))
    /\ os_type' = Head(os_types)
    /\ os_types' = Tail(os_types)
    /\ os_data' = [name |-> capitalize(Head(os_types)), versions |-> EmptyDict]
    /\ pc' = "crashed"
    /\ UNCHANGED <<disk, rootfs_metadata, versions, version, version_data,
                   has_valid_arch, archs, arch, arch_data, files, listed, stdout,
                   json_file, runs, prev_json>>

\* lines 52-54: the next version entry is not a directory
VersionNotDir ==
    /\ pc = "version_loop"
    /\ versions # <<>>
    /\ ~os_path_isdir(os_path_join(os_type_path, Head(versions)))
    /\ version' = Head(versions)
    /\ versions' = Tail(versions)
    /\ UNCHANGED <<disk, pc, rootfs_metadata, os_types, os_type, os_data, version_data,
                   has_valid_arch, archs, arch, arch_data, files, listed, stdout,
                   json_file, runs, prev_json>>

\* VersionDir with has_valid_arch set once per OS type, not per version
VersionDir_FlagKept ==
    /\ pc = "version_loop"
    /\ versions # <<>>
    /\ os_path_isdir(os_path_join(os_type_path, Head(versions)))
    /\ version' = Head(versions)
    /\ versions' = Tail(versions)
    /\ version_data' = [codename |-> Codename(os_type, Head(versions)),
                        architectures |-> EmptyDict]
    /\ \E l \in os_listdir(os_path_join(os_type_path, Head(versions))) :
           archs' = sorted(l)
    /\ pc' = "arch_loop"
    /\ UNCHANGED <<disk, rootfs_metadata, os_types, os_type, os_data, arch, arch_data,
                   files, listed, stdout, json_file, runs, prev_json, has_valid_arch>>

\* lines 52-68: a version directory is entered and its entries are listed
VersionDir ==
    /\ pc = "version_loop"
    /\ versions # <<>>
    /\ os_path_isdir(os_path_join(os_type_path, Head(versions)))
    /\ version' = Head(versions)
    /\ versions' = Tail(versions)
    /\ version_data' = [codename |-> Codename(os_type, Head(versions)),
                        architectures |-> EmptyDict]
    /\ has_valid_arch' = FALSE
    /\ \E l \in os_listdir(os_path_join(os_type_path, Head(versions))) :
           archs' = sorted(l)
    /\ pc' = "arch_loop"
    /\ UNCHANGED <<disk, rootfs_metadata, os_types, os_type, os_data, arch, arch_data,
                   files, listed, stdout, json_file, runs, prev_json>>

\* VersionsDone appending the distribution only when a version was kept
VersionsDone_NonEmptyOnly ==
    /\ pc = "version_loop"
    /\ versions = <<>>
    /\ rootfs_metadata' =
           IF os_data.versions = <<>> THEN rootfs_metadata
           ELSE [rootfs_metadata EXCEPT !.distributions = Append(@, os_data)]
    /\ pc' = "os_loop"
    /\ UNCHANGED <<disk, os_types, os_type, os_data, versions, version, version_data,
                   has_valid_arch, archs, arch, arch_data, files, listed, stdout,
                   json_file, runs, prev_json>>

\* line 100: the versions are exhausted, the distribution is appended
VersionsDone ==
    /\ pc = "version_loop"
    /\ versions = <<>>
    /\ rootfs_metadata' =
           [rootfs_metadata EXCEPT !.distributions = Append(@, os_data)]
    /\ pc' = "os_loop"
    /\ UNCHANGED <<disk, os_types, os_type, os_data, versions, version, version_data,
                   has_valid_arch, archs, arch, arch_data, files, listed, stdout,
                   json_file, runs, prev_json>>

\* line 69 without the allow-list test
IsValidAbi_Any(a) == TRUE

\* line 69: arch in VALID_ABIS
IsValidAbi(a) == SeqHas(VALID_ABIS, a)

\* lines 68-70: a name outside VALID_ABIS is skipped
ArchNotValid ==
    /\ pc = "arch_loop"
    /\ archs # <<>>
    /\ ~IsValidAbi(Head(archs))
    /\ arch' = Head(archs)
    /\ archs' = Tail(archs)
    /\ UNCHANGED <<disk, pc, rootfs_metadata, os_types, os_type, os_data, versions,
                   version, version_data, has_valid_arch, arch_data, files, listed,
                   stdout, json_file, runs, prev_json>>

\* lines 72-73: a valid name that is not a directory
ArchNotDir ==
    /\ pc = "arch_loop"
    /\ archs # <<>>
    /\ IsValidAbi(Head(archs))
    /\ ~os_path_isdir(os_path_join(version_path, Head(archs)))
    /\ arch' = Head(archs)
    /\ archs' = Tail(archs)
    /\ UNCHANGED <<disk, pc, rootfs_metadata, os_types, os_type, os_data, versions,
                   version, version_data, has_valid_arch, arch_data, files, listed,
                   stdout, json_file, runs, prev_json>>

\* lines 72-77: an architecture directory is entered and listed, unsorted
ArchDir ==
    /\ pc = "arch_loop"
    /\ archs # <<>>
    /\ IsValidAbi(Head(archs))
    /\ os_path_isdir(os_path_join(version_path, Head(archs)))
    /\ arch' = Head(archs)
    /\ archs' = Tail(archs)
    /\ arch_data' = EmptyDict
    /\ \E l \in os_listdir(os_path_join(version_path, Head(archs))) :
           /\ files' = l
           /\ listed' = (os_path_join(version_path, Head(archs)) :> l) @@ listed
    /\ pc' = "file_loop"
    /\ UNCHANGED <<disk, rootfs_metadata, os_types, os_type, os_data, versions,
                   version, version_data, has_valid_arch, stdout, json_file, runs,
                   prev_json>>

\* lines 97-98: the architectures are exhausted and one was valid
VersionKept ==
    /\ pc = "arch_loop"
    /\ archs = <<>>
    /\ has_valid_arch
    /\ os_data' = [os_data EXCEPT !.versions = DictSet(@, version, version_data)]
    /\ pc' = "version_loop"
    /\ UNCHANGED <<disk, rootfs_metadata, os_types, os_type, versions, version,
                   version_data, has_valid_arch, archs, arch, arch_data, files, listed,
                   stdout, json_file, runs, prev_json>>

\* line 97: the architectures are exhausted and none was valid
VersionDropped ==
    /\ pc = "arch_loop"
    /\ archs = <<>>
    /\ ~has_valid_arch
    /\ pc' = "version_loop"
    /\ UNCHANGED <<disk, rootfs_metadata, os_types, os_type, os_data, versions,
                   version, version_data, has_valid_arch, archs, arch, arch_data, files,
                   listed, stdout, json_file, runs, prev_json>>

\* lines 77-78: a name that does not end in the archive suffix
FileNotArchive ==
    /\ pc = "file_loop"
    /\ files # <<>>
    /\ ~endswith(Head(files), ARCHIVE_SUFFIX)
    /\ files' = Tail(files)
    /\ UNCHANGED <<disk, pc, rootfs_metadata, os_types, os_type, os_data, versions,
                   version, version_data, has_valid_arch, archs, arch, arch_data,
                   listed, stdout, json_file, runs, prev_json>>

\* lines 78-86: an archive whose checksum is None; get_md5_checksum has printed
ArchiveNoChecksum ==
    /\ pc = "file_loop"
    /\ files # <<>>
    /\ endswith(Head(files), ARCHIVE_SUFFIX)
    /\ LET md5_file_name == Head(files) \o MD5_EXT
           md5_file_path == os_path_join(arch_path, md5_file_name)
           md5_checksum == get_md5_checksum(md5_file_path)
       IN  /\ md5_checksum.is_none
           /\ stdout' = stdout \o md5_checksum.printed
    /\ files' = Tail(files)
    /\ UNCHANGED <<disk, pc, rootfs_metadata, os_types, os_type, os_data, versions,
                   version, version_data, has_valid_arch, archs, arch, arch_data,
                   listed, json_file, runs, prev_json>>

\* lines 78-95: an archive with a checksum is recorded
ArchiveRecorded ==
    /\ pc = "file_loop"
    /\ files # <<>>
    /\ endswith(Head(files), ARCHIVE_SUFFIX)
    /\ LET file_name == Head(files)
           file_path == os_path_join(arch_path, file_name)
           md5_file_name == file_name \o MD5_EXT
           md5_file_path == os_path_join(arch_path, md5_file_name)
           md5_checksum == get_md5_checksum(md5_file_path)
           new_arch_data ==
               [file_name |-> file_name,
                download_size |-> get_file_size(file_path),
                download_url |-> get_relative_url(version, arch, file_name, os_type),
                md5_checksum |-> md5_checksum.value]
       IN  /\ ~md5_checksum.is_none
           /\ ~GetsizeRaises(file_path)
           /\ stdout' = stdout \o md5_checksum.printed
           /\ arch_data' = new_arch_data
           /\ version_data' =
                  [version_data EXCEPT
                       !.architectures = DictSet(@, arch, new_arch_data)]
           /\ has_valid_arch' = TRUE
    /\ files' = Tail(files)
    /\ UNCHANGED <<disk, pc, rootfs_metadata, os_types, os_type, os_data, versions,
                   version, archs, arch, listed, json_file, runs, prev_json>>

\* lines 78-90: the checksum was read but os.path.getsize raises, uncaught
ArchiveGetsizeRaises ==
    /\ pc = "file_loop"
    /\ files # <<>>
    /\ endswith(Head(files), ARCHIVE_SUFFIX)
    /\ LET file_path == os_path_join(arch_path, Head(files))
           md5_file_path == os_path_join(arch_path, Head(files) \o MD5_EXT)
           md5_checksum == get_md5_checksum(md5_file_path)
       IN  /\ ~md5_checksum.is_none
           /\ GetsizeRaises(file_path)
           /\ stdout' = stdout \o md5_checksum.printed
    /\ files' = Tail(files)
    /\ pc' = "crashed"
    /\ UNCHANGED <<disk, rootfs_metadata, os_types, os_type, os_data, versions,
                   version, version_data, has_valid_arch, archs, arch, arch_data,
                   listed, json_file, runs, prev_json>>

\* line 77: the listing is exhausted
FilesDone ==
    /\ pc = "file_loop"
    /\ files = <<>>
    /\ pc' = "arch_loop"
    /\ UNCHANGED <<disk, rootfs_metadata, os_types, os_type, os_data, versions,
                   version, version_data, has_valid_arch, archs, arch, arch_data, files,
                   listed, stdout, json_file, runs, prev_json>>

SuccessMessage ==
    [text |-> "JSON data with download sizes and MD5 checksums successfully generated.",
     path |-> <<>>, exc |-> "none"]

\* lines 103-106: the catalog is written and the success message printed
WriteJson ==
    /\ pc = "os_loop"
    /\ os_types = <<>>
    /\ json_file' = json_dump(rootfs_metadata)
    /\ stdout' = Append(stdout, SuccessMessage)
    /\ pc' = "done"
    /\ UNCHANGED <<disk, rootfs_metadata, os_types, os_type, os_data, versions,
                   version, version_data, has_valid_arch, archs, arch, arch_data, files,
                   listed, runs, prev_json>>

MaxRuns == 2

\* the script is started again in the same, unchanged working directory
Rerun ==
    /\ pc \in {"done", "crashed"}
    /\ runs < MaxRuns
    /\ runs' = runs + 1
    /\ prev_json' = json_file
    /\ pc' = "os_loop"
    /\ rootfs_metadata' = [distributions |-> <<>>]
    /\ os_types' = OS_TYPES
    /\ os_type' = NoStr
    /\ os_data' = EmptyDict
    /\ versions' = <<>>
    /\ version' = NoStr
    /\ version_data' = EmptyDict
    /\ has_valid_arch' = FALSE
    /\ archs' = <<>>
    /\ arch' = NoStr
    /\ arch_data' = EmptyDict
    /\ files' = <<>>
    /\ listed' = <<>>
    /\ stdout' = <<>>
    /\ UNCHANGED <<disk, json_file>>

(***************************************************************************)
(* The directory trees explored.  Every tree has the layout                *)
(* <os-type>/<version>/<arch>/<file>; a tree varies one level at a time:   *)
(* the files of one architecture directory, the entries of one version     *)
(* directory, the entries of one OS-type directory, or the entries of the  *)
(* working directory.                                                      *)
(***************************************************************************)
MaxArchs == 2      \* entries of the version directory that is varied

MaxVersions == 2   \* entries of the OS-type directory that is varied

V_9_0 == <<"9",".","0">>

V_10_0 == <<"1","0",".","0">>

V_22_04 == <<"2","2",".","0","4">>

VersionNames == {V_9_0, V_10_0, V_22_04}

Arm64 == <<"a","r","m","6","4">>

Armhf == <<"a","r","m","h","f">>

Mips == <<"m","i","p","s">>

X86 == <<"x","8","6">>

X86_64 == <<"x","8","6","_","6","4">>

ArchNames == {Arm64, Armhf, Mips, X86, X86_64}

ArchiveA == <<"a","-","r","o","o","t","f","s",".","t","a","r",".","g","z">>

ArchiveB == <<"b","-","r","o","o","t","f","s",".","t","a","r",".","g","z">>

ArchiveNames == {ArchiveA, ArchiveB}

ArchiveSizes == {0, 500000}

ChecksumLine ==
    <<" ","a","b","c","1","2","3"," ","f","i","l","e","-","n","a","m","e","\n">>

SidecarTexts == {<<>>, <<" ", "\n">>, ChecksumLine}

ArchiveNodes == {File(n, TRUE, <<>>) : n \in ArchiveSizes} \cup {Dangling}

SidecarNodes ==
    {Missing, File(0, FALSE, <<>>)} \cup {File(Len(t), TRUE, t) : t \in SidecarTexts}

Units == [archive : ArchiveNodes, sidecar : SidecarNodes]

\* the directory holding the archives of `units` and the sidecars they have
ArchDirOf(units) ==
    LET with_sidecar == {a \in DOMAIN units : units[a].sidecar.kind # "missing"}
        names == DOMAIN units \cup {a \o MD5_EXT : a \in with_sidecar}
    IN  Dir([n \in names |->
                IF n \in DOMAIN units THEN units[n].archive
                ELSE units[SubSeq(n, 1, Len(n) - Len(MD5_EXT))].sidecar])

RichArchDirs ==
    {ArchDirOf(u) : u \in UNION {[S -> Units] : S \in SUBSET ArchiveNames}}

PlainFile == File(0, TRUE, <<>>)

PairDir ==
    ArchDirOf(ArchiveA :> [archive |-> File(500000, TRUE, <<>>),
                           sidecar |-> File(Len(ChecksumLine), TRUE, ChecksumLine)])

NoSidecarDir ==
    ArchDirOf(ArchiveA :> [archive |-> File(500000, TRUE, <<>>), sidecar |-> Missing])

EmptyDir == Dir(NoEntries)

\* the directories with at most `max` entries, named from `names`, each one of `nodes`
EntriesOver(names, nodes, max) ==
    UNION {[S -> nodes] : S \in {T \in SUBSET names : Cardinality(T) <= max}}

OsNames == {OS_TYPES[i] : i \in DOMAIN OS_TYPES}

LeafTrees ==
    {Dir(os :> Dir(V_22_04 :> Dir(Arm64 :> d))) : os \in OsNames, d \in RichArchDirs}

ArchTrees ==
    {Dir(os :> Dir(V_22_04 :> Dir(e))) :
        os \in OsNames,
        e \in EntriesOver(ArchNames, {PlainFile, EmptyDir, PairDir, NoSidecarDir}, MaxArchs)}

VersionTrees ==
    {Dir(os :> Dir(e)) :
        os \in OsNames,
        e \in EntriesOver(VersionNames,
                          {PlainFile, EmptyDir, Dir(Arm64 :> PairDir),
                           Dir(Arm64 :> NoSidecarDir)},
                          MaxVersions)}

OsTrees ==
    {Dir(e) :
        e \in EntriesOver(OsNames,
                          {PlainFile, Dangling, EmptyDir,
                           Dir(V_22_04 :> Dir(Arm64 :> PairDir))},
                          Len(OS_TYPES))}

\* one release per tree, under every version name of the model and of the table
ReleaseTrees ==
    {Dir(os :> Dir(v :> Dir(Arm64 :> PairDir))) :
        os \in OsNames,
        v \in VersionNames \cup {UBUNTU_VERSION_MAP[i].key : i \in DOMAIN UBUNTU_VERSION_MAP}}

Trees == LeafTrees \cup ArchTrees \cup VersionTrees \cup OsTrees \cup ReleaseTrees

(***************************************************************************)
(* Specifications                                                          *)
(***************************************************************************)
Init ==
    /\ disk \in Trees
    /\ json_file = <<>>
    /\ runs = 1
    /\ prev_json = <<>>
    /\ Start

Next ==
    \/ OsTypeAbsent
    \/ OsTypeListed
    \/ OsTypeListdirRaises
    \/ VersionNotDir
    \/ VersionDir
    \/ VersionsDone
    \/ ArchNotValid
    \/ ArchNotDir
    \/ ArchDir
    \/ VersionKept
    \/ VersionDropped
    \/ FileNotArchive
    \/ ArchiveNoChecksum
    \/ ArchiveRecorded
    \/ ArchiveGetsizeRaises
    \/ FilesDone
    \/ WriteJson

\* one run of the script
Spec == Init /\ [][Next]_vars

NextRerun == Next \/ Rerun

\* the script run MaxRuns times over the same tree
SpecRerun == Init /\ [][NextRerun]_vars

(***************************************************************************)
(* Vocabulary of the properties, stated on the tree and on the catalog     *)
(* without the script's own helpers                                        *)
(***************************************************************************)
AllowList ==
    {<<"a","r","m","6","4">>, <<"a","r","m","h","f">>, <<"a","m","d","6","4">>,
     <<"i","3","8","6">>, <<"x","8","6">>, <<"x","8","6","_","6","4">>,
     <<"a","a","r","c","h","6","4">>}

DisplayName(os) ==
    IF os = Alpine THEN <<"A","l","p","i","n","e">> ELSE <<"U","b","u","n","t","u">>

OnDisk(path) == NodeUnder(disk, path)

NamesIn(path) == DOMAIN OnDisk(path).entries

Blank(c) == c \in {" ", "\t", "\n", "\r"}

EndsInSuffix(f) ==
    /\ Len(f) >= 14
    /\ \A i \in 1..14 : f[Len(f) - 14 + i] = ARCHIVE_SUFFIX[i]

HasToken(t) == \E i \in DOMAIN t : ~Blank(t[i])

\* the first whitespace-delimited token of a text that has one
FirstToken(t) ==
    LET i == CHOOSE a \in DOMAIN t : ~Blank(t[a]) /\ \A b \in 1..(a - 1) : Blank(t[b])
        j == CHOOSE a \in i..Len(t) :
                 /\ \A b \in i..a : ~Blank(t[b])
                 /\ (a = Len(t) \/ Blank(t[a + 1]))
    IN  SubSeq(t, i, j)

SidecarOf(loc, f) == OnDisk(loc \o <<f \o <<".","m","d","5">> >>)

\* the sidecar of f exists, can be read and holds a token
UsableSidecar(loc, f) ==
    /\ SidecarOf(loc, f).kind = "file"
    /\ SidecarOf(loc, f).readable
    /\ HasToken(SidecarOf(loc, f).content)

\* the sidecar of f is missing or unreadable
NoSidecar(loc, f) ==
    \/ SidecarOf(loc, f).kind \in {"missing", "dangling"}
    \/ SidecarOf(loc, f).kind = "file" /\ ~SidecarOf(loc, f).readable

\* the files of directory loc that carry the archive suffix
Matches(loc) == {f \in NamesIn(loc) : EndsInSuffix(f)}

\* the archives of loc that are on disk with a usable sidecar
WellFormed(loc) ==
    {f \in Matches(loc) : OnDisk(Append(loc, f)).kind = "file" /\ UsableSidecar(loc, f)}

\* the architecture directories the layout recognises
ArchLocations ==
    {<<os, ver, arc>> : os \in OsNames, ver \in VersionNames \cup
                            {UBUNTU_VERSION_MAP[i].key : i \in DOMAIN UBUNTU_VERSION_MAP},
                        arc \in AllowList}

ArchDirsOnDisk ==
    {loc \in ArchLocations :
        /\ OnDisk(<<loc[1]>>).kind = "dir"
        /\ OnDisk(<<loc[1], loc[2]>>).kind = "dir"
        /\ OnDisk(loc).kind = "dir"}

RECURSIVE SlashJoin(_)
SlashJoin(parts) ==
    IF Len(parts) = 1 THEN parts[1]
    ELSE parts[1] \o <<"/">> \o SlashJoin(Tail(parts))

ExpectedUrl(loc, f) == SlashJoin(<<BASE_URL>> \o loc \o <<f>>)

\* a is before b in lexicographic order of code points
LexLess(a, b) ==
    \E k \in 1..(Len(a) + 1) :
        /\ k <= Len(b)
        /\ \A i \in 1..(k - 1) : a[i] = b[i]
        /\ (k = Len(a) + 1 \/ Ord[a[k]] < Ord[b[k]])

Written == pc = "done"

Distributions == rootfs_metadata.distributions

HasDistribution(os) == \E i \in DOMAIN Distributions : Distributions[i].name = DisplayName(os)

DistributionOf(os) ==
    Distributions[CHOOSE i \in DOMAIN Distributions : Distributions[i].name = DisplayName(os)]

HasEntry(loc) ==
    /\ HasDistribution(loc[1])
    /\ DictHas(DistributionOf(loc[1]).versions, loc[2])
    /\ DictHas(DictGet(DistributionOf(loc[1]).versions, loc[2]).architectures, loc[3])

EntryOf(loc) ==
    DictGet(DictGet(DistributionOf(loc[1]).versions, loc[2]).architectures, loc[3])

\* the last name of listing l that is in S
LastOf(l, S) ==
    l[CHOOSE i \in DOMAIN l : l[i] \in S /\ \A j \in (i + 1)..Len(l) : l[j] \notin S]

Describes(entry, loc, f) ==
    /\ entry.file_name = f
    /\ entry.download_size = OnDisk(Append(loc, f)).size
    /\ entry.md5_checksum = FirstToken(SidecarOf(loc, f).content)
    /\ entry.download_url = ExpectedUrl(loc, f)

(***************************************************************************)
(* C1                                                                      *)
(***************************************************************************)
\* C1 as stated: in the written catalog every well-formed archive+sidecar pair
\* of an allow-listed architecture directory is described by the entry of its
\* architecture (name, byte size, first token of the sidecar, URL).
C1_EveryPairDescribed ==
    Written =>
        \A loc \in ArchDirsOnDisk : \A f \in WellFormed(loc) :
            HasEntry(loc) /\ Describes(EntryOf(loc), loc, f)

\* C1 amended: in the written catalog every allow-listed architecture directory
\* that holds a well-formed pair has an entry, and the entry describes the pair
\* listed last among the directory's well-formed pairs (its only pair when it
\* holds one): name, byte size on disk, first token of the sidecar, URL.
C1_LastPairDescribed ==
    Written =>
        \A loc \in ArchDirsOnDisk :
            WellFormed(loc) # {} =>
                /\ loc \in DOMAIN listed
                /\ HasEntry(loc)
                /\ Describes(EntryOf(loc), loc, LastOf(listed[loc], WellFormed(loc)))

\* a catalog is written for a directory with two well-formed pairs, and its
\* entry describes the one listed last, a-rootfs.tar.gz of 500000 bytes
C1_Witness ==
    /\ Written
    /\ \E loc \in ArchDirsOnDisk :
          /\ WellFormed(loc) = {ArchiveA, ArchiveB}
          /\ HasEntry(loc)
          /\ EntryOf(loc).file_name = ArchiveA
          /\ EntryOf(loc).download_size = 500000
          /\ EntryOf(loc).md5_checksum = <<"a","b","c","1","2","3">>

(***************************************************************************)
(* C2                                                                      *)
(***************************************************************************)
\* C2: every architecture key of the written catalog is in the allow-list and
\* its directory holds a file with the archive suffix whose sidecar exists, is
\* readable and holds a token; so a "mips" directory or a directory whose only
\* sidecars are empty or blank contributes no entry.
C2_EntriesJustified ==
    Written =>
        \A os \in OsNames :
            HasDistribution(os) =>
                \A i \in DOMAIN DistributionOf(os).versions :
                    LET v == DistributionOf(os).versions[i] IN
                    \A j \in DOMAIN v.value.architectures :
                        LET loc == <<os, v.key, v.value.architectures[j].key>> IN
                        /\ loc[3] \in AllowList
                        /\ \E f \in Matches(loc) : UsableSidecar(loc, f)

\* a catalog with an arm64 entry is written for a version that also holds a
\* mips directory with a well-formed pair
C2_Witness ==
    /\ Written
    /\ \E os \in OsNames :
          /\ WellFormed(<<os, V_22_04, Mips>>) # {}
          /\ HasEntry(<<os, V_22_04, Arm64>>)

(***************************************************************************)
(* C3                                                                      *)
(***************************************************************************)
\* some allow-listed architecture directory of the version holds an archive
\* with a usable sidecar
VersionHasArchive(os, ver) ==
    \E loc \in ArchDirsOnDisk :
        /\ loc[1] = os
        /\ loc[2] = ver
        /\ \E f \in Matches(loc) : UsableSidecar(loc, f)

\* C3: in the written catalog a version directory is a key of its
\* distribution's versions exactly when an architecture entry was recorded
\* under it, so every version kept has a non-empty architectures mapping and a
\* version without one is absent whatever was found under the versions before it.
C3_VersionIffArchitecture ==
    Written =>
        \A os \in OsNames :
            HasDistribution(os) =>
                /\ \A ver \in NamesIn(<<os>>) :
                       DictHas(DistributionOf(os).versions, ver)
                           <=> VersionHasArchive(os, ver)
                /\ \A i \in DOMAIN DistributionOf(os).versions :
                       /\ DistributionOf(os).versions[i].key \in NamesIn(<<os>>)
                       /\ DistributionOf(os).versions[i].value.architectures # <<>>

\* version 9.0, processed first, was kept with its architecture and version
\* 22.04, processed after it, has no valid architecture and is absent
C3_Witness ==
    /\ Written
    /\ \E os \in OsNames :
          /\ HasDistribution(os)
          /\ DictKeys(DistributionOf(os).versions) = <<V_9_0>>
          /\ OnDisk(<<os, V_22_04>>).kind = "dir"

(***************************************************************************)
(* C4                                                                      *)
(***************************************************************************)
ExistsOnDisk(os) == OnDisk(<<os>>).kind \in {"file", "dir"}

RECURSIVE NamesOfPresent(_)
NamesOfPresent(oses) ==
    IF oses = <<>> THEN <<>>
    ELSE (IF ExistsOnDisk(Head(oses)) THEN <<DisplayName(Head(oses))>> ELSE <<>>)
         \o NamesOfPresent(Tail(oses))

\* C4: the distributions of the written catalog are, in the order Alpine then
\* Ubuntu, exactly the OS types whose path exists, each once under its
\* capitalized name, a distribution without versions included.
C4_OneDistributionPerOsType ==
    Written =>
        [i \in DOMAIN Distributions |-> Distributions[i].name]
            = NamesOfPresent(<<Alpine, Ubuntu>>)

\* Alpine with a version and Ubuntu with none are both in the catalog, in order
C4_Witness ==
    /\ Written
    /\ Len(Distributions) = 2
    /\ Distributions[1].name = <<"A","l","p","i","n","e">>
    /\ Distributions[1].versions # <<>>
    /\ Distributions[2].name = <<"U","b","u","n","t","u">>
    /\ Distributions[2].versions = <<>>

(***************************************************************************)
(* C5                                                                      *)
(***************************************************************************)
Md5PathOf(loc, f) == Append(loc, f \o <<".","m","d","5">>)

IsDiagnostic(m) == m.text = "Error reading MD5 file"

Diagnosed(loc, f) ==
    \E i \in DOMAIN stdout : IsDiagnostic(stdout[i]) /\ stdout[i].path = Md5PathOf(loc, f)

\* how many names of the listing of loc the file loop has gone through
NumProcessed(loc) ==
    IF loc = <<os_type, version, arch>>
    THEN Len(listed[loc]) - Len(files)
    ELSE Len(listed[loc])

\* every diagnostic is about an archive, already gone through, of a listed
\* allow-listed architecture directory
DiagnosticsJustified ==
    \A i \in DOMAIN stdout :
        IsDiagnostic(stdout[i]) =>
            \E loc \in ArchDirsOnDisk \cap DOMAIN listed :
                \E j \in 1..NumProcessed(loc) :
                    /\ EndsInSuffix(listed[loc][j])
                    /\ ~UsableSidecar(loc, listed[loc][j])
                    /\ stdout[i].path = Md5PathOf(loc, listed[loc][j])

\* C5 as stated: in a completed run every archive of an allow-listed
\* architecture directory whose sidecar is missing or unreadable has its
\* diagnostic and its architecture has no key in the catalog, and no diagnostic
\* is about anything else.
C5_NoKeyAfterDiagnostic ==
    Written =>
        /\ \A loc \in ArchDirsOnDisk : \A f \in Matches(loc) :
               NoSidecar(loc, f) => Diagnosed(loc, f) /\ ~HasEntry(loc)
        /\ DiagnosticsJustified

C5_State ==
    /\ \A loc \in DOMAIN listed : \A j \in 1..NumProcessed(loc) :
           EndsInSuffix(listed[loc][j]) /\ NoSidecar(loc, listed[loc][j])
               => Diagnosed(loc, listed[loc][j])
    /\ DiagnosticsJustified
    /\ Written =>
           \A loc \in ArchDirsOnDisk : \A f \in Matches(loc) :
               NoSidecar(loc, f) /\ HasEntry(loc) =>
                   /\ EntryOf(loc).file_name # f
                   /\ \E g \in Matches(loc) \ {f} : UsableSidecar(loc, g)

C5_Step ==
    (Len(stdout') = Len(stdout) + 1 /\ IsDiagnostic(stdout'[Len(stdout')])) =>
        /\ pc' = pc
        /\ files' = Tail(files)
        /\ version_data' = version_data
        /\ has_valid_arch' = has_valid_arch

\* C5 amended: every archive of an allow-listed architecture directory that
\* the file loop reaches while its sidecar is missing or unreadable gets a
\* diagnostic, the step that prints it records nothing and goes on to the next
\* name of the listing, and no diagnostic is about a directory without a
\* matching file or outside the allow-list; in the written catalog the
\* architecture's entry never describes that archive, and the architecture has
\* a key only if another matching archive of the directory has a usable sidecar.
C5_DiagnosticAndDrop == []C5_State /\ [][C5_Step]_vars

\* a-rootfs.tar.gz has no sidecar and was diagnosed, b-rootfs.tar.gz of the
\* same directory is in the written catalog
C5_Witness ==
    /\ Written
    /\ \E loc \in ArchDirsOnDisk :
          /\ ArchiveA \in Matches(loc)
          /\ NoSidecar(loc, ArchiveA)
          /\ Diagnosed(loc, ArchiveA)
          /\ HasEntry(loc)
          /\ EntryOf(loc).file_name = ArchiveB

(***************************************************************************)
(* C6                                                                      *)
(***************************************************************************)
\* C6 as stated: no content of the base directory makes the run end in an
\* uncaught error; the only failure, a sidecar read failure, is caught.
C6_NoFatalError == pc # "crashed"

(***************************************************************************)
(* C7                                                                      *)
(***************************************************************************)
\* C7 as stated: a second run over the unchanged tree writes the same document
\* as the first.
C7_RerunIdentical == (runs > 1 /\ pc = "done") => json_file = prev_json

(***************************************************************************)
(* C8                                                                      *)
(***************************************************************************)
\* C8 as stated: the entry of an architecture directory, if any, describes the
\* last listed file with the archive suffix, and there is no entry when that
\* file has no usable sidecar.
C8_LastMatchChosen ==
    Written =>
        \A loc \in ArchDirsOnDisk :
            Matches(loc) # {} =>
                LET last == LastOf(listed[loc], Matches(loc)) IN
                /\ HasEntry(loc) => EntryOf(loc).file_name = last
                /\ ~UsableSidecar(loc, last) => ~HasEntry(loc)

\* C8 amended: an architecture directory has an entry in the written catalog
\* exactly when one of its files with the archive suffix has a usable sidecar,
\* and the entry then names exactly one file: the last listed among the
\* matching files that have a usable sidecar.
C8_LastUsableMatchChosen ==
    Written =>
        \A loc \in ArchDirsOnDisk :
            LET usable == {f \in Matches(loc) : UsableSidecar(loc, f)} IN
            /\ HasEntry(loc) <=> usable # {}
            /\ usable # {} => EntryOf(loc).file_name = LastOf(listed[loc], usable)

\* b-rootfs.tar.gz is listed last and has no usable sidecar, and the entry
\* names a-rootfs.tar.gz, listed before it
C8_Witness ==
    /\ Written
    /\ \E loc \in ArchDirsOnDisk :
          /\ Matches(loc) = {ArchiveA, ArchiveB}
          /\ LastOf(listed[loc], Matches(loc)) = ArchiveB
          /\ ~UsableSidecar(loc, ArchiveB)
          /\ HasEntry(loc)
          /\ EntryOf(loc).file_name = ArchiveA

(***************************************************************************)
(* C9                                                                      *)
(***************************************************************************)
StrictlyDescending(keys) ==
    \A i \in DOMAIN keys : \A j \in DOMAIN keys : i < j => LexLess(keys[j], keys[i])

StrictlyAscending(keys) ==
    \A i \in DOMAIN keys : \A j \in DOMAIN keys : i < j => LexLess(keys[i], keys[j])

VersionsInOrder(d) ==
    /\ StrictlyDescending(DictKeys(d))
    /\ \A i \in DOMAIN d : StrictlyAscending(DictKeys(d[i].value.architectures))

\* C9: in every state of the traversal the version keys of every distribution,
\* finished or in progress, are in strictly descending lexicographic order and
\* the architecture keys of every version in strictly ascending order, and the
\* version and architecture being processed come after all keys present.
C9_KeysInSortOrder ==
    /\ \A i \in DOMAIN Distributions : VersionsInOrder(Distributions[i].versions)
    /\ DOMAIN os_data # {} => VersionsInOrder(os_data.versions)
    /\ DOMAIN version_data # {} =>
           StrictlyAscending(DictKeys(version_data.architectures))
    /\ pc \in {"arch_loop", "file_loop"} =>
           \A i \in DOMAIN os_data.versions : LexLess(version, os_data.versions[i].key)
    /\ pc = "file_loop" =>
           \A i \in DOMAIN version_data.architectures :
               \/ version_data.architectures[i].key = arch
               \/ LexLess(version_data.architectures[i].key, arch)

\* the versions kept so far are "9.0" and then "10.0"
C9_Witness ==
    /\ DOMAIN os_data # {}
    /\ DictKeys(os_data.versions) = <<V_9_0, V_10_0>>

(***************************************************************************)
(* C10                                                                     *)
(***************************************************************************)
ExpectedCodename(os, ver) ==
    IF os = Ubuntu
    THEN IF \E i \in DOMAIN UBUNTU_VERSION_MAP : UBUNTU_VERSION_MAP[i].key = ver
         THEN UBUNTU_VERSION_MAP[CHOOSE i \in DOMAIN UBUNTU_VERSION_MAP :
                                     UBUNTU_VERSION_MAP[i].key = ver].value
         ELSE <<>>
    ELSE DisplayName(os) \o <<"-">> \o ver

\* C10: the codename of every version of the written catalog is, for Ubuntu,
\* the table's value for the version or "" when the table has none, and for
\* another OS type "<Capitalized OS type>-<version>".
C10_CodenameByFamily ==
    Written =>
        \A os \in OsNames :
            HasDistribution(os) =>
                \A i \in DOMAIN DistributionOf(os).versions :
                    DistributionOf(os).versions[i].value.codename
                        = ExpectedCodename(os, DistributionOf(os).versions[i].key)

\* Ubuntu keeps the unmapped "9.0" with codename "" next to "22.04", Jammy Jellyfish
C10_Witness ==
    /\ Written
    /\ HasDistribution(Ubuntu)
    /\ DictHas(DistributionOf(Ubuntu).versions, V_9_0)
    /\ DictGet(DistributionOf(Ubuntu).versions, V_9_0).codename = <<>>
    /\ DictHas(DistributionOf(Ubuntu).versions, V_22_04)
    /\ DictGet(DistributionOf(Ubuntu).versions, V_22_04).codename
           = <<"J","a","m","m","y"," ","J","e","l","l","y","f","i","s","h">>

====
